---- MODULE Spec2Model ----
(***************************************************************************)
(* convertmysqldump.py: a single pass over a MySQLdump file that rewrites  *)
(* the engine token MyISAM to InnoDB, except in the scope of the schemas   *)
(* of the exclusion list.  Text is modelled as sequences of one-character  *)
(* strings, so that the three regular expressions of ProcessFiles are      *)
(* computed on the characters of a line.                                   *)
(***************************************************************************)
EXTENDS Integers, Sequences, FiniteSets, TLC

(***************************************************************************)
(* Characters.  re.IGNORECASE and str.upper() on the ASCII letters.        *)
(***************************************************************************)
lowercase ==
    <<"a","b","c","d","e","f","g","h","i","j","k","l","m",
      "n","o","p","q","r","s","t","u","v","w","x","y","z">>

uppercase ==
    <<"A","B","C","D","E","F","G","H","I","J","K","L","M",
      "N","O","P","Q","R","S","T","U","V","W","X","Y","Z">>

digits == {"0","1","2","3","4","5","6","7","8","9"}

Range(f) == {f[i] : i \in DOMAIN f}

\* the backquote character, which a TLA+ string cannot hold
BQ == "<BQ>"

lowercase_letters == Range(lowercase)

\* each lower-case letter's upper-case letter
to_upper ==
    [c \in lowercase_letters |->
        uppercase[CHOOSE i \in DOMAIN lowercase : lowercase[i] = c]]

\* one character, upper-cased
upper_char(c) == IF c \in lowercase_letters THEN to_upper[c] ELSE c

\* str.upper()
upper(s) == [i \in DOMAIN s |-> upper_char(s[i])]

word_chars == Range(lowercase) \cup Range(uppercase) \cup digits \cup {"_"}

\* the class \w
IsWordChar(c) == c \in word_chars

(***************************************************************************)
(* The patterns of ProcessFiles and the replacement text.                  *)
(***************************************************************************)
\* 'CREATE DATABASE'
pat_database ==
    <<"C","R","E","A","T","E"," ","D","A","T","A","B","A","S","E">>

\* 'CREATE TABLE'
pat_table ==
    <<"C","R","E","A","T","E"," ","T","A","B","L","E">>

\* 'MyISAM'
pat_myisam ==
    <<"M","y","I","S","A","M">>

\* 'InnoDB'
repl_innodb ==
    <<"I","n","n","o","D","B">>

\* 'mysql'
mysql ==
    <<"m","y","s","q","l">>

\* the value of re.search when nothing matches; a captured \w+ is never empty
NoMatch == <<>>

\* the literal text pat matches at position p of line, ignoring case
MatchAt(pat, line, p) ==
    /\ p >= 1
    /\ p + Len(pat) - 1 <= Len(line)
    /\ \A k \in 1..Len(pat) : upper_char(line[p + k - 1]) = upper_char(pat[k])

\* '.' matches no newline and '$' matches before a final newline: the part
\* of the line a '.*' can cover
BodyLen(line) ==
    IF Len(line) > 0 /\ line[Len(line)] = "\n" THEN Len(line) - 1 ELSE Len(line)

\* the positions of a backquote that opens a quoted \w+
Opens(line, from) ==
    {i \in from..BodyLen(line) :
        /\ line[i] = BQ
        /\ \E j \in (i + 2)..BodyLen(line) :
              /\ line[j] = BQ
              /\ \A k \in (i + 1)..(j - 1) : IsWordChar(line[k])}

Max(S) == CHOOSE x \in S : \A y \in S : y <= x

Min(S) == CHOOSE x \in S : \A y \in S : x <= y

\* ^KEYWORD, anything, a backquoted \w+ (the second group), anything: the
\* second group, or NoMatch.  The first star is greedy, so the name is the
\* last backquoted \w+ of the line.
MarkerName(keyword, line) ==
    IF MatchAt(keyword, line, 1) /\ Opens(line, Len(keyword) + 1) # {}
    THEN LET i == Max(Opens(line, Len(keyword) + 1))
             j == Min({c \in (i + 2)..BodyLen(line) : line[c] = BQ})
         IN  SubSeq(line, i + 1, j - 1)
    ELSE NoMatch

\* database_re.search(line), then groups()[1]
database_re(line) == MarkerName(pat_database, line)

\* table_re.search(line), then groups()[1]
table_re(line) == MarkerName(pat_table, line)

\* myisam_re.search(line)
myisam_re_search(line) == \E p \in 1..Len(line) : MatchAt(pat_myisam, line, p)

\* re.sub scans from the left and replaces the non-overlapping matches
RECURSIVE SubFrom(_, _)
SubFrom(line, p) ==
    IF p > Len(line) THEN <<>>
    ELSE IF MatchAt(pat_myisam, line, p)
         THEN repl_innodb \o SubFrom(line, p + Len(pat_myisam))
         ELSE <<line[p]>> \o SubFrom(line, p + 1)

\* a substitution that stops after the first match (count=1)
myisam_re_sub_first(line) ==
    IF myisam_re_search(line)
    THEN LET p == Min({q \in 1..Len(line) : MatchAt(pat_myisam, line, q)})
         IN  SubSeq(line, 1, p - 1) \o repl_innodb
                 \o SubSeq(line, p + Len(pat_myisam), Len(line))
    ELSE line

\* myisam_re.sub('InnoDB', line)
myisam_re_sub(line) == SubFrom(line, 1)

(***************************************************************************)
(* The lines the dump files of the model are made of.                      *)
(***************************************************************************)
\* 'CREATE DATABASE <BQ>appdb<BQ>;\n'
LineCreateAppdb ==
    <<"C","R","E","A","T","E"," ","D","A","T","A","B","A","S","E"," ",BQ,"a",
      "p","p","d","b",BQ,";","\n">>

\* 'CREATE DATABASE <BQ>mysql<BQ>;\n'
LineCreateMysql ==
    <<"C","R","E","A","T","E"," ","D","A","T","A","B","A","S","E"," ",BQ,"m",
      "y","s","q","l",BQ,";","\n">>

\* 'create database <BQ>MySQL<BQ> -- myisam\n'
LineCreateMySQLToken ==
    <<"c","r","e","a","t","e"," ","d","a","t","a","b","a","s","e"," ",BQ,"M",
      "y","S","Q","L",BQ," ","-","-"," ","m","y","i","s","a","m","\n">>

\* 'CREATE DATABASE <BQ>myisam_db<BQ>;\n'
LineCreateMyisamDb ==
    <<"C","R","E","A","T","E"," ","D","A","T","A","B","A","S","E"," ",BQ,"m",
      "y","i","s","a","m","_","d","b",BQ,";","\n">>

\* 'CREATE TABLE <BQ>t1<BQ> (\n'
LineCreateTable ==
    <<"C","R","E","A","T","E"," ","T","A","B","L","E"," ",BQ,"t","1",BQ," ",
      "(","\n">>

\* ') ENGINE=MyISAM;\n'
LineEngine ==
    <<")"," ","E","N","G","I","N","E","=","M","y","I","S","A","M",";","\n">>

\* ') engine=myisam /* MyISAMyisam */'
LineEngineMixed ==
    <<")"," ","e","n","g","i","n","e","=","m","y","i","s","a","m"," ","/","*",
      " ","M","y","I","S","A","M","y","i","s","a","m"," ","*","/">>

\* '-- CREATE DATABASE <BQ>mysql<BQ>;\n'
LineComment ==
    <<"-","-"," ","C","R","E","A","T","E"," ","D","A","T","A","B","A","S","E",
      " ",BQ,"m","y","s","q","l",BQ,";","\n">>

\* 'CREATE TABLE <BQ>myisam_log<BQ> (\n'
LineCreateTableToken ==
    <<"C","R","E","A","T","E"," ","T","A","B","L","E"," ",BQ,"m","y","i","s",
      "a","m","_","l","o","g",BQ," ","(","\n">>

Lines ==
    {LineCreateAppdb, LineCreateMysql, LineCreateMySQLToken, LineCreateMyisamDb,
     LineCreateTable, LineCreateTableToken, LineEngine, LineEngineMixed,
     LineComment}

\* the longest dump file
MaxLines == 3

RECURSIVE SeqsUpTo(_, _)
SeqsUpTo(S, k) ==
    IF k = 0 THEN {<<>>}
    ELSE LET shorter == SeqsUpTo(S, k - 1)
         IN  shorter \cup {Append(s, x) : s \in {t \in shorter : Len(t) = k - 1}, x \in S}

\* a text file holds at most one line without a terminator, its last one
Dumps ==
    {d \in SeqsUpTo(Lines, MaxLines) :
        \A i \in 1..(Len(d) - 1) : d[i][Len(d[i])] = "\n"}

(***************************************************************************)
(* Files.  A file is the sequence of the strings written to it; reading it *)
(* splits its characters into lines again, each with its terminator.       *)
(***************************************************************************)
RECURSIVE Flatten(_)
Flatten(chunks) ==
    IF chunks = <<>> THEN <<>> ELSE Head(chunks) \o Flatten(Tail(chunks))

RECURSIVE SplitFrom(_, _)
SplitFrom(data, from) ==
    IF from > Len(data) THEN <<>>
    ELSE LET ends == {i \in from..Len(data) : data[i] = "\n"}
             end == IF ends = {} THEN Len(data) ELSE Min(ends)
         IN  <<SubSeq(data, from, end)>> \o SplitFrom(data, end + 1)

\* the lines iterating over an open text file yields
readlines(chunks) == SplitFrom(Flatten(chunks), 1)

Paths == {"dump.sql", "out.sql"}

NoFile == [exists |-> FALSE, data |-> <<>>]

File(chunks) == [exists |-> TRUE, data |-> chunks]

\* what an output path left by an earlier run holds
OldOutput == File(<<LineEngine>>)

(***************************************************************************)
(* The state: the file system, the command line, the position of the       *)
(* script, and the local variables of ProcessFiles.                        *)
(***************************************************************************)
VARIABLES
    fs,          \* the files, by path
    args,        \* the argparse namespace
    pc,          \* "main", "loop" (inside ProcessFiles) or "exit"
    infile,      \* the lines the open input file yields
    pos,         \* how many of them the for loop has taken
    n,           \* enumerate's index
    database,
    isexcluded,
    table,
    preserved,
    changed,
    log,         \* the records the logging module has emitted
    exception,   \* the exception that ended the script, if one did
    exitStatus   \* the exit status of the process

vars ==
    <<fs, args, pc, infile, pos, n, database, isexcluded, table, preserved,
      changed, log, exception, exitStatus>>

\* database = None
None == <<"None">>

\* a local variable no assignment has bound yet (table, n)
Unbound == <<"unbound">>

NUnbound == -1

NoException == "none"

\* excluded = ['mysql']
excluded == {mysql}

\* [e.upper() for e in excluded], the argument of ProcessFiles
excluded_arg == {upper(e) : e \in excluded}

(***************************************************************************)
(* ProcessFiles.  Its locals as a record: s.outfile is what the call has   *)
(* written, s.log what it has logged, s.exception the error that ended it. *)
(***************************************************************************)
\* locals that start outside every exclusion
InitLocals_included(log0) ==
    [database |-> None, isexcluded |-> FALSE, table |-> Unbound,
     preserved |-> 0, changed |-> 0, n |-> NUnbound,
     outfile |-> <<>>, log |-> log0, exception |-> NoException]

InitLocals(log0) ==
    [database |-> None, isexcluded |-> TRUE, table |-> Unbound,
     preserved |-> 0, changed |-> 0, n |-> NUnbound,
     outfile |-> <<>>, log |-> log0, exception |-> NoException]

\* a schema marker whose name is looked up as it is written
FoundDatabase_case_sensitive(s, line) ==
    LET founddb == database_re(line)
    IN  IF founddb # NoMatch
        THEN [s EXCEPT
                !.database = founddb,
                !.isexcluded = founddb \in excluded_arg,
                !.log = Append(@, [level |-> "INFO", kind |-> "database",
                                   line |-> s.n + 1, name |-> founddb,
                                   excluded |-> founddb \in excluded_arg])]
        ELSE s

\* a schema marker that sets the flag and never clears it
FoundDatabase_never_clears(s, line) ==
    LET founddb == database_re(line)
        flag == s.isexcluded \/ upper(founddb) \in excluded_arg
    IN  IF founddb # NoMatch
        THEN [s EXCEPT
                !.database = founddb,
                !.isexcluded = flag,
                !.log = Append(@, [level |-> "INFO", kind |-> "database",
                                   line |-> s.n + 1, name |-> founddb,
                                   excluded |-> flag])]
        ELSE s

\* lines 87-92
FoundDatabase(s, line) ==
    LET founddb == database_re(line)
    IN  IF founddb # NoMatch
        THEN [s EXCEPT
                !.database = founddb,
                !.isexcluded = upper(founddb) \in excluded_arg,
                !.log = Append(@, [level |-> "INFO", kind |-> "database",
                                   line |-> s.n + 1, name |-> founddb,
                                   excluded |-> upper(founddb) \in excluded_arg])]
        ELSE s

\* a table marker that derives the flag from the table name
FoundTable_by_table_name(s, line) ==
    LET foundtable == table_re(line)
    IN  IF foundtable # NoMatch
        THEN [s EXCEPT
                !.table = foundtable,
                !.isexcluded = upper(foundtable) \in excluded_arg,
                !.log = Append(@, [level |-> "INFO", kind |-> "table",
                                   line |-> s.n + 1, name |-> foundtable])]
        ELSE s

\* lines 94-99: database.upper() raises while database is None
FoundTable(s, line) ==
    LET foundtable == table_re(line)
    IN  IF foundtable # NoMatch
        THEN IF s.database = None
             THEN [s EXCEPT !.table = foundtable,
                            !.exception = "AttributeError"]
             ELSE [s EXCEPT
                     !.table = foundtable,
                     !.isexcluded = upper(s.database) \in excluded_arg,
                     !.log = Append(@, [level |-> "INFO", kind |-> "table",
                                        line |-> s.n + 1, name |-> foundtable])]
        ELSE s

\* a loop whose else branch is gone: every line counts as preserved
WriteLine_counts_both(s, line) ==
    LET s1 == IF ~s.isexcluded /\ myisam_re_search(line) /\ s.table # Unbound
              THEN [s EXCEPT !.outfile = Append(@, myisam_re_sub(line)),
                             !.changed = @ + 1]
              ELSE [s EXCEPT !.outfile = Append(@, line)]
    IN  [s1 EXCEPT !.preserved = @ + 1]

\* a loop that writes the changed lines only
WriteLine_drops_preserved(s, line) ==
    IF ~s.isexcluded /\ myisam_re_search(line) /\ s.table # Unbound
    THEN [s EXCEPT !.outfile = Append(@, myisam_re_sub(line)), !.changed = @ + 1]
    ELSE [s EXCEPT !.preserved = @ + 1]

\* lines 101-109: the message of line 103 reads table, which is unbound
\* until a table marker has been seen
WriteLine(s, line) ==
    IF ~s.isexcluded /\ myisam_re_search(line)
    THEN LET newline == myisam_re_sub(line)
         IN  IF s.table = Unbound
             THEN [s EXCEPT !.exception = "UnboundLocalError: table"]
             ELSE [s EXCEPT
                     !.log = Append(@, [level |-> "INFO", kind |-> "changing",
                                        line |-> s.n + 1, database |-> s.database,
                                        table |-> s.table, old |-> line,
                                        new |-> newline]),
                     !.outfile = Append(@, newline),
                     !.changed = @ + 1]
    ELSE [s EXCEPT !.outfile = Append(@, line), !.preserved = @ + 1]

\* one iteration of the for loop, on the k-th line (k counts from 0)
ProcessLine(s, line, k) ==
    LET s0 == [s EXCEPT !.n = k]
        s1 == FoundDatabase(s0, line)
        s2 == FoundTable(s1, line)
    IN  IF s2.exception # NoException THEN s2 ELSE WriteLine(s2, line)

\* line 110, after the loop: n is unbound when the loop body never ran
Summary(s) ==
    IF s.n = NUnbound
    THEN [s EXCEPT !.exception = "UnboundLocalError: n"]
    ELSE [s EXCEPT !.log = Append(@, [level |-> "INFO", kind |-> "summary",
                                      read |-> s.n + 1, changed |-> s.changed,
                                      preserved |-> s.preserved])]

RECURSIVE Iterate(_, _, _)
Iterate(s, lines, k) ==
    IF s.exception # NoException THEN s
    ELSE IF k >= Len(lines) THEN Summary(s)
    ELSE Iterate(ProcessLine(s, lines[k + 1], k), lines, k + 1)

\* a whole call of ProcessFiles on the lines of an input file
ProcessFiles(lines) == Iterate(InitLocals(<<>>), lines, 0)

(***************************************************************************)
(* The script.                                                             *)
(***************************************************************************)
\* SetupLogging: the DEBUG records are emitted only with --verbose
Emit(l, a, rec) ==
    IF rec.level = "DEBUG" /\ ~a.verbose THEN l ELSE Append(l, rec)

Locals ==
    [database |-> database, isexcluded |-> isexcluded, table |-> table,
     preserved |-> preserved, changed |-> changed, n |-> n,
     outfile |-> fs[args.output].data, log |-> log, exception |-> exception]

Init ==
    /\ \E d \in Dumps, o \in {NoFile, OldOutput} :
          fs = [p \in Paths |-> IF p = "dump.sql" THEN File(d) ELSE o]
    /\ args \in [input : Paths, output : Paths, force : BOOLEAN, verbose : BOOLEAN]
    /\ pc = "main"
    /\ infile = <<>>
    /\ pos = 0
    /\ n = NUnbound
    /\ database = None
    /\ isexcluded = TRUE
    /\ table = Unbound
    /\ preserved = 0
    /\ changed = 0
    /\ log = <<>>
    /\ exception = NoException
    /\ exitStatus = "running"

\* the test of line 123 with the flag the wrong way round
OutputConflict_force_inverted == fs[args.output].exists /\ args.force

\* os.path.exists(args.output) and not args.force
OutputConflict == fs[args.output].exists /\ ~args.force

\* lines 117-118
LogConverting == Emit(<<>>, args, [level |-> "DEBUG", kind |-> "converting"])

\* lines 124-125, and the end of the script
ReportConflict ==
    /\ log' = Emit(LogConverting, args,
                   [level |-> "ERROR", kind |-> "exists", path |-> args.output])
    /\ pc' = "exit"
    /\ exitStatus' = "0"
    /\ UNCHANGED <<fs, infile, exception>>
    /\ UNCHANGED <<n, database, isexcluded, table, preserved, changed>>

\* line 127: open(args.input) raises, before args.output is opened
OpenFails ==
    /\ exception' = "FileNotFoundError"
    /\ log' = LogConverting
    /\ pc' = "exit"
    /\ exitStatus' = "1"
    /\ UNCHANGED <<fs, infile>>
    /\ UNCHANGED <<n, database, isexcluded, table, preserved, changed>>

\* lines 127-130 and 81-84: both files are opened, the output for writing,
\* which empties it, and ProcessFiles is called and sets its locals
OpenFiles ==
    /\ fs' = [fs EXCEPT ![args.output] = File(<<>>)]
    /\ infile' = readlines(fs'[args.input].data)
    /\ LET s == InitLocals(Emit(Emit(LogConverting, args,
                                     [level |-> "DEBUG", kind |-> "opened for reading"]),
                                args, [level |-> "DEBUG", kind |-> "opened for writing"]))
       IN  /\ log' = s.log
           /\ n' = s.n
           /\ database' = s.database
           /\ isexcluded' = s.isexcluded
           /\ table' = s.table
           /\ preserved' = s.preserved
           /\ changed' = s.changed
           /\ exception' = s.exception
    /\ pc' = "loop"
    /\ UNCHANGED exitStatus

\* lines 115-130 up to the first iteration of ProcessFiles
Main ==
    /\ pc = "main"
    /\ IF OutputConflict THEN ReportConflict
       ELSE IF ~fs[args.input].exists THEN OpenFails
       ELSE OpenFiles
    /\ UNCHANGED <<args, pos>>

\* the locals, the output file and the log after a step s of ProcessFiles
Store(s) ==
    /\ n' = s.n
    /\ database' = s.database
    /\ isexcluded' = s.isexcluded
    /\ table' = s.table
    /\ preserved' = s.preserved
    /\ changed' = s.changed
    /\ fs' = [fs EXCEPT ![args.output].data = s.outfile]
    /\ log' = s.log
    /\ exception' = s.exception

\* an exception nothing catches leaves the with statement, which closes the
\* files, and ends the script with status 1
Raised(s) == s.exception # NoException

\* one iteration of the for loop of ProcessFiles
Step ==
    /\ pc = "loop"
    /\ pos < Len(infile)
    /\ LET s == ProcessLine(Locals, infile[pos + 1], pos)
       IN  /\ Store(s)
           /\ IF Raised(s)
              THEN pc' = "exit" /\ exitStatus' = "1"
              ELSE pc' = "loop" /\ UNCHANGED exitStatus
    /\ pos' = pos + 1
    /\ UNCHANGED <<args, infile>>

\* the end of the input: the summary of line 110, the return, and the end
\* of the script
EndOfFile ==
    /\ pc = "loop"
    /\ pos = Len(infile)
    /\ LET s == Summary(Locals)
       IN  /\ Store(s)
           /\ pc' = "exit"
           /\ exitStatus' = IF Raised(s) THEN "1" ELSE "0"
    /\ UNCHANGED <<args, infile, pos>>

Next == Main \/ Step \/ EndOfFile

Spec == Init /\ [][Next]_vars

(***************************************************************************)
(* The vocabulary of the properties.                                       *)
(***************************************************************************)
\* what the run has written to its output file
outfile == fs[args.output].data

\* the script ended on the error message of line 124
ConflictReported == \E k \in DOMAIN log : log[k].kind = "exists"

\* ProcessFiles has been called
Called ==
    \/ pc = "loop"
    \/ pc = "exit" /\ exception # "FileNotFoundError" /\ ~ConflictReported

\* ProcessFiles has returned
Returned == pc = "exit" /\ Called /\ exception = NoException

\* an iteration of the for loop raised
LineFailed == exception \in {"AttributeError", "UnboundLocalError: table"}

\* the iterations of the for loop that ran to their end
Processed == IF LineFailed THEN pos - 1 ELSE pos

\* a name is in the exclusion list, letter case ignored
IsExcludedName(name) == \E e \in excluded : upper(e) = upper(name)

\* the last schema marker among the first i lines, 0 when there is none
LastMarker(lines, i) ==
    LET M == {k \in 1..i : database_re(lines[k]) # NoMatch}
    IN  IF M = {} THEN 0 ELSE Max(M)

\* the scope line i lies in: that of an excluded schema, that of another
\* schema, or none before the first schema marker
ScopeOf(lines, i) ==
    LET m == LastMarker(lines, i)
    IN  IF m = 0 THEN "none"
        ELSE IF IsExcludedName(database_re(lines[m])) THEN "excluded"
        ELSE "included"

(***************************************************************************)
(* C1.  Every line in the scope of an excluded schema, from its marker     *)
(* line on, that the loop has taken is in the output, identical to the     *)
(* input line, also when it holds the engine token in any letter case.     *)
(***************************************************************************)
C1_ExcludedScopePreserved ==
    Called =>
        \A i \in 1..pos :
            ScopeOf(infile, i) = "excluded" =>
                /\ i <= Len(outfile)
                /\ outfile[i] = infile[i]

\* a run that changed a line has written a token line of an excluded scope
C1_Witness ==
    /\ Called
    /\ changed > 0
    /\ \E i \in 1..Len(outfile) :
          /\ ScopeOf(infile, i) = "excluded"
          /\ myisam_re_search(infile[i])
          /\ outfile[i] = infile[i]

(***************************************************************************)
(* C2.  Every line in the scope of a schema that is not excluded and that  *)
(* holds the engine token is written with every occurrence of the token    *)
(* replaced by InnoDB, and is counted in changed.                          *)
(***************************************************************************)
C2_IncludedTokenLineSubstituted ==
    Called =>
        /\ \A i \in 1..pos :
              (ScopeOf(infile, i) = "included" /\ myisam_re_search(infile[i])) =>
                  /\ i <= Len(outfile)
                  /\ outfile[i] = myisam_re_sub(infile[i])
        /\ changed = Cardinality({i \in 1..pos :
                                     /\ ScopeOf(infile, i) = "included"
                                     /\ myisam_re_search(infile[i])})

(***************************************************************************)
(* C3.  Scenario A: on a marker of a schema that is not excluded followed, *)
(* with no table marker, by a line holding the engine token, the run       *)
(* completes, the token line is written substituted, and changed = 1.      *)
(***************************************************************************)
ScenarioA(lines) ==
    /\ Len(lines) = 2
    /\ database_re(lines[1]) # NoMatch
    /\ ~IsExcludedName(database_re(lines[1]))
    /\ ~myisam_re_search(lines[1])
    /\ table_re(lines[2]) = NoMatch
    /\ myisam_re_search(lines[2])

C3_ScenarioACompletes ==
    (pc = "exit" /\ Called /\ ScenarioA(infile)) =>
        /\ exception = NoException
        /\ outfile = <<infile[1], myisam_re_sub(infile[2])>>
        /\ changed = 1

(***************************************************************************)
(* C4.  An iteration of the loop never fails: from every state of the loop *)
(* with a line left, the step raises nothing and writes one line.          *)
(***************************************************************************)
C4_LineNeverFails ==
    [][(pc = "loop" /\ pos < Len(infile)) =>
          (exception' = NoException /\ Len(outfile') = Len(outfile) + 1)]_vars

(***************************************************************************)
(* C5.  Every run on an input of N lines, N >= 0, ends with the summary:   *)
(* N lines read, and changed + preserved = N.                              *)
(***************************************************************************)
SummaryOf(l) == {l[k] : k \in {j \in DOMAIN l : l[j].kind = "summary"}}

C5_SummaryForEveryInput ==
    (pc = "exit" /\ Called) =>
        /\ \E r \in SummaryOf(log) :
              /\ r.read = Len(infile)
              /\ r.changed + r.preserved = Len(infile)
        /\ changed + preserved = Len(infile)

(***************************************************************************)
(* C6.  After k lines have been processed changed + preserved = k; each    *)
(* processed line adds one to exactly one of the two counters, and neither *)
(* counter ever goes down.                                                 *)
(***************************************************************************)
C6_CountersCountLines ==
    /\ [](changed + preserved = Processed)
    /\ [][/\ changed' >= changed
          /\ preserved' >= preserved
          /\ Processed' = Processed + 1 =>
                \/ changed' = changed + 1 /\ preserved' = preserved
                \/ changed' = changed /\ preserved' = preserved + 1
          /\ Processed' = Processed =>
                changed' = changed /\ preserved' = preserved]_vars

\* the loop has changed a line and preserved a line
C6_Witness == pc = "loop" /\ changed >= 1 /\ preserved >= 1

(***************************************************************************)
(* C7.  The output is a line-for-line image of the input, in order: after  *)
(* k lines have been processed the output file holds k lines, the i-th the *)
(* i-th input line or its substitution; a step only appends one line.      *)
(***************************************************************************)
IsPrefix(a, b) == Len(a) <= Len(b) /\ SubSeq(b, 1, Len(a)) = a

C7_LineForLine ==
    /\ [](Called =>
            LET out == readlines(outfile)
            IN  /\ Len(out) = Processed
                /\ \A i \in 1..Len(out) :
                      out[i] = infile[i] \/ out[i] = myisam_re_sub(infile[i]))
    /\ [][pc = "loop" =>
            /\ IsPrefix(outfile, outfile')
            /\ Len(outfile') <= Len(outfile) + 1]_vars

\* a changed line lies between two unchanged lines of the output
C7_Witness ==
    /\ Called
    /\ Len(outfile) = 3
    /\ outfile[1] = infile[1]
    /\ outfile[2] # infile[2]
    /\ outfile[3] = infile[3]

(***************************************************************************)
(* C8.  The transform is idempotent: ProcessFiles on the output of a run   *)
(* that completed returns, changes no line and writes its input again; no  *)
(* changed line holds the source token, and every line of the output lies  *)
(* in the same scope as the input line it came from.                       *)
(***************************************************************************)
C8_Idempotent ==
    Returned =>
        LET lines == readlines(outfile)
            again == ProcessFiles(lines)
        IN  /\ again.exception = NoException
            /\ again.changed = 0
            /\ Flatten(again.outfile) = Flatten(outfile)
            /\ Len(lines) = Len(infile)
            /\ \A i \in 1..Len(lines) :
                  /\ ScopeOf(lines, i) = ScopeOf(infile, i)
                  /\ lines[i] # infile[i] => ~myisam_re_search(lines[i])

\* the first run changed a line and kept a line of an excluded scope that
\* holds the token, which the second run has to keep again
C8_Witness ==
    /\ Returned
    /\ changed >= 1
    /\ \E i \in 1..Len(outfile) :
          /\ ScopeOf(infile, i) = "excluded"
          /\ myisam_re_search(outfile[i])

(***************************************************************************)
(* C9.  When the output path exists and --force is not given, the script   *)
(* logs the error and ends with no file opened: ProcessFiles is not        *)
(* called and no file changes.  The ended script takes no further step.    *)
(***************************************************************************)
C9_ConflictOpensNothing ==
    [][/\ pc # "exit"
       /\ (pc = "main" /\ fs[args.output].exists /\ ~args.force) =>
             /\ pc' = "exit"
             /\ ConflictReported'
             /\ fs' = fs
             /\ infile' = infile
             /\ ~Called']_vars

\* the script has ended on the conflict, the old output file as it was
C9_Witness ==
    /\ pc = "exit"
    /\ ConflictReported
    /\ args.input = "dump.sql"
    /\ args.output = "out.sql"
    /\ fs["out.sql"] = OldOutput

(***************************************************************************)
(* C10.  When the output path exists and --force is not given, the exit    *)
(* status differs from that of a run that completed, which is 0.           *)
(***************************************************************************)
C10_ConflictExitsWithFailure ==
    (pc = "exit" /\ ConflictReported) => exitStatus # "0"

(***************************************************************************)
(* C11.  The exclusion list of every run holds mysql and is matched with   *)
(* letter case ignored: after a marker naming mysql in any case the flag   *)
(* is set, and on Scenario B (such a marker, then a token line) both lines *)
(* are preserved: preserved = 2, changed = 0.                              *)
(***************************************************************************)
NamesMysql(line) ==
    /\ database_re(line) # NoMatch
    /\ upper(database_re(line)) = upper(mysql)

ScenarioB(lines) ==
    /\ Len(lines) = 2
    /\ NamesMysql(lines[1])
    /\ database_re(lines[2]) = NoMatch
    /\ table_re(lines[2]) = NoMatch
    /\ myisam_re_search(lines[2])

C11_MysqlAlwaysExcluded ==
    /\ upper(mysql) \in excluded_arg
    /\ (Called /\ pos >= 1 /\ NamesMysql(infile[pos])) =>
          (isexcluded /\ exception = NoException)
    /\ (pc = "exit" /\ Called /\ ScenarioB(infile)) =>
          /\ exception = NoException
          /\ outfile = infile
          /\ preserved = 2
          /\ changed = 0

\* Scenario B has run to its end, the schema named in mixed case
C11_Witness ==
    /\ pc = "exit"
    /\ Called
    /\ ScenarioB(infile)
    /\ database # mysql
    /\ preserved = 2

(***************************************************************************)
(* C12.  Without --verbose a run of ProcessFiles logs no record for a      *)
(* changed line: its records are those of the schema markers, the table    *)
(* markers and the summary.                                                *)
(***************************************************************************)
C12_ChangeLoggedOnlyWhenVerbose ==
    (Called /\ ~args.verbose) =>
        \A k \in DOMAIN log : log[k].kind \in {"database", "table", "summary"}

(***************************************************************************)
(* C13.  Once a schema marker has been recognized, database is the name    *)
(* of the most recent schema marker and isexcluded tells whether that name *)
(* is in the exclusion list, letter case ignored.                          *)
(***************************************************************************)
C13_FlagMatchesSchema ==
    Called =>
        LET m == LastMarker(infile, pos)
        IN  /\ (m = 0) <=> (database = None)
            /\ m > 0 =>
                  /\ database = database_re(infile[m])
                  /\ isexcluded = IsExcludedName(database)

\* the flag of an excluded schema named in mixed case, kept over a later line
C13_Witness ==
    /\ pc = "loop"
    /\ pos >= 2
    /\ LastMarker(infile, pos) \in 1..(pos - 1)
    /\ database # mysql
    /\ isexcluded

(***************************************************************************)
(* C14.  Once a schema marker has been seen, a line that is no schema      *)
(* marker leaves database and isexcluded as they are; a table marker sets  *)
(* table and nothing else of the context, any other line leaves table too. *)
(***************************************************************************)
C14_OnlySchemaMarkersMoveTheScope ==
    [][(/\ pc = "loop"
        /\ pos < Len(infile)
        /\ database # None
        /\ database_re(infile[pos + 1]) = NoMatch) =>
           /\ database' = database
           /\ isexcluded' = isexcluded
           /\ table' = IF table_re(infile[pos + 1]) # NoMatch
                       THEN table_re(infile[pos + 1])
                       ELSE table]_vars

\* a table marker has been processed in the scope of an excluded schema
C14_Witness ==
    /\ pc = "loop"
    /\ pos >= 2
    /\ table_re(infile[pos]) # NoMatch
    /\ table = table_re(infile[pos])
    /\ database # None
    /\ isexcluded

(***************************************************************************)
(* C15.  A schema marker line is handled under the flag of the schema it   *)
(* introduces: one for an excluded schema that holds the token and follows *)
(* the scope of another schema is written unchanged, and one for a schema  *)
(* that is not excluded, holds the token and follows an excluded scope is  *)
(* written substituted and counted in changed.                             *)
(***************************************************************************)
C15_MarkerLineUnderItsOwnFlag ==
    Called =>
        \A i \in 2..pos :
            (database_re(infile[i]) # NoMatch /\ myisam_re_search(infile[i])) =>
                /\ (ScopeOf(infile, i) = "excluded"
                    /\ ScopeOf(infile, i - 1) = "included") =>
                       /\ i <= Len(outfile)
                       /\ outfile[i] = infile[i]
                /\ (ScopeOf(infile, i) = "included"
                    /\ ScopeOf(infile, i - 1) = "excluded") =>
                       /\ i <= Len(outfile)
                       /\ outfile[i] = myisam_re_sub(infile[i])
                       /\ changed >= 1

(***************************************************************************)
(* C16.  Before the first schema marker the flag is set: every line taken  *)
(* before it that is no table marker is written unchanged and counted in   *)
(* preserved, also when it holds the token.                                *)
(***************************************************************************)
C16_PreambleIsPreserved ==
    Called =>
        /\ \A i \in 1..pos :
              (ScopeOf(infile, i) = "none" /\ table_re(infile[i]) = NoMatch) =>
                  /\ i <= Len(outfile)
                  /\ outfile[i] = infile[i]
        /\ (database = None /\ ~LineFailed) =>
              /\ isexcluded
              /\ changed = 0
              /\ preserved = pos

\* two lines taken before any schema marker, one of them holding the token
C16_Witness ==
    /\ pc = "loop"
    /\ database = None
    /\ pos >= 2
    /\ preserved = pos
    /\ \E i \in 1..pos : myisam_re_search(infile[i]) /\ outfile[i] = infile[i]

(***************************************************************************)
(* C17.  No step of a run changes the input file, whatever the paths and   *)
(* --force are, also when both paths name the same file.                   *)
(***************************************************************************)
C17_InputFileNeverChanges ==
    [][fs'[args.input] = fs[args.input]]_vars

====
